---- MODULE Spec2Model ----
(***************************************************************************)
(* Inventory planner: the store (products, sales, purchase_orders,         *)
(* purchase_order_items), the receive-purchase-order handlers of both      *)
(* service files (src/index.js and src/unnamed/part_000) and the           *)
(* velocity / reorder arithmetic.                                          *)
(*                                                                         *)
(* A velocity (a sum of quantities divided by 30.0) is carried as the      *)
(* exact fraction.  The rounding of the products the handlers take the     *)
(* ceiling of (IEEE-754 doubles in JavaScript, NUMERIC in SQL) is modelled *)
(* where it changes the ceiling: when the exact product is an integer and  *)
(* the computed one lies above it.  The rounding of the quotient           *)
(* stock / velocity is not modelled.  The columns the handlers use and the *)
(* startup DDL does not create (purchase_orders.supplier_id, received_at)  *)
(* are taken to exist.                                                     *)
(***************************************************************************)
EXTENDS Integers, Sequences, FiniteSets, TLC

\* ---------------------------------------------------------------- bounds
MaxProducts == 2
MaxOrders == 2
MaxLines == 2
MaxClients == 2
MaxFaults == 1
MaxSales == 2
MaxNow == 61
MaxRows == 2

\* ---------------------------------------------------------------- program constants
VelocityWindowDays == 30
LEAD_TIME_DAYS == 30
DefaultLeadTimeDays == 30
DefaultBufferDays == 14
TARGET_DAYS_COVERAGE == 90
CsvTargetDays == 90
TARGET_DAYS == 60

Quantities == {1, 2}
Clients == 1..MaxClients
ProductIds == 1..MaxProducts

\* SQL NULL / a present value, for nullable columns.
Null == <<>>
Some(v) == <<v>>

VARIABLES
    app,                    \* which service file is running
    products,               \* products table: row id = index
    purchase_orders,        \* purchase_orders table: row id = index
    purchase_order_items,   \* purchase_order_items table, in insertion order
    req,                    \* in-flight POST /purchase-orders/:id/receive requests
    credited,               \* per order and product: committed stock increments made on its account
    faults,                 \* store failures and crashes so far
    sales,                  \* sales table, in insertion order
    now,                    \* the clock, in half days (even: midnight)
    out                     \* the latest exchange with an inventory handler

vars == <<app, products, purchase_orders, purchase_order_items, req, credited, faults,
          sales, now, out>>

Apps == {"index.js", "part_000"}

Zero == [p \in ProductIds |-> 0]

\* ---------------------------------------------------------------- routing

\* The handlers registered for POST /purchase-orders/:id/receive, in
\* registration order.
ReceiveRoutes(a) ==
    IF a = "part_000"
    THEN <<"transactional", "checked", "unchecked">>
    ELSE <<"checked", "unchecked">>

\* The spec's design note reads the duplicates as "later ones shadowing
\* earlier ones".
DispatchLast(routes) == routes[Len(routes)]

\* Express runs the first matching route; no receive handler calls next().
Dispatch(routes) == routes[1]

\* ---------------------------------------------------------------- store helpers

NoRow == [product_id |-> Null, quantity |-> Null, status |-> "none"]

Idle ==
    [pc |-> "idle", handler |-> "none", id |-> 0, po |-> NoRow,
     items |-> <<>>, i |-> 0, added |-> Zero, locked |-> {}, po_locked |-> FALSE,
     res |-> "none"]

ItemsOf(id) == SelectSeq(purchase_order_items, LAMBDA r : r.purchase_order_id = id)

Exists(id) == id \in 1..Len(purchase_orders)

\* UPDATE products SET stock = stock + q WHERE id = p  (no row: nothing updated)
AddStock(prods, p, q) ==
    IF p \in 1..Len(prods)
    THEN [prods EXCEPT ![p].stock = @ + q]
    ELSE prods

AddAll(prods, delta) ==
    [p \in 1..Len(prods) |-> [prods[p] EXCEPT !.stock = @ + delta[p]]]

Plus(f, p, q) == IF p \in ProductIds THEN [f EXCEPT ![p] = @ + q] ELSE f

SetStatus(orders, id, s) == [orders EXCEPT ![id].status = s]

\* A request to an inventory handler and the body of its response.
\* A request and its answer; at is the clock reading when it was answered.
Exchange(op, request, body) == [op |-> op, request |-> request, body |-> body, at |-> now]

NoExchange == Exchange("none", Null, Null)

\* ---------------------------------------------------------------- Init

Init ==
    /\ app \in Apps
    /\ products = <<>>
    /\ purchase_orders = <<>>
    /\ purchase_order_items = <<>>
    /\ req = [c \in Clients |-> Idle]
    /\ credited = <<>>
    /\ faults = 0
    /\ sales = <<>>
    /\ now = 0
    /\ out = NoExchange

\* ---------------------------------------------------------------- creation

\* POST /products
CreateProduct(s) ==
    /\ Len(products) < MaxProducts
    /\ products' = Append(products, [stock |-> s, image_url |-> Null])
    /\ out' = Exchange("POST /products", Null, [id |-> Len(products) + 1, stock |-> s])
    /\ UNCHANGED <<app, faults, sales, now, purchase_orders, purchase_order_items, req, credited>>

InsertOrder(p, q) ==
    /\ purchase_orders' = Append(purchase_orders,
            [product_id |-> p, quantity |-> q, status |-> "open"])
    /\ credited' = Append(credited, Zero)

\* POST /purchase-orders.  In part_000 the handler reads product_id,
\* quantity and expected_date, which it never declares: it throws before
\* the INSERT.
CreatePurchaseOrder(p, q) ==
    /\ app = "index.js"
    /\ Len(purchase_orders) < MaxOrders
    /\ p \in 1..Len(products)
    /\ InsertOrder(Some(p), Some(q))
    /\ UNCHANGED <<app, faults, sales, now, out, products, purchase_order_items, req>>

\* POST /purchase-orders/from-suggestion
CreateFromSuggestion(p, q) ==
    /\ app = "part_000"
    /\ Len(purchase_orders) < MaxOrders
    /\ p \in 1..Len(products)
    /\ InsertOrder(Some(p), Some(q))
    /\ UNCHANGED <<app, faults, sales, now, out, products, purchase_order_items, req>>

\* POST /purchase-orders/from-dashboard: one transaction inserting the
\* order and its lines.
CreateFromDashboard(items) ==
    /\ app = "part_000"
    /\ Len(purchase_orders) < MaxOrders
    /\ \A k \in 1..Len(items) : items[k].product_id \in 1..Len(products)
    /\ InsertOrder(Null, Null)
    /\ purchase_order_items' = purchase_order_items \o
            [k \in 1..Len(items) |->
                [purchase_order_id |-> Len(purchase_orders) + 1,
                 product_id |-> items[k].product_id,
                 quantity |-> items[k].quantity]]
    /\ UNCHANGED <<app, faults, sales, now, out, products, req>>

\* ---------------------------------------------------------------- receive

InFlight(c) == req[c].pc \notin {"idle", "done"}

\* The response is sent; with a success the record keeps what this request
\* added to each product's stock.
Finish(c, r) ==
    [req EXCEPT ![c] = [Idle EXCEPT !.pc = "done", !.id = req[c].id, !.res = r,
                                    !.added = IF r = "success" THEN req[c].added ELSE Zero]]

\* A request for POST /purchase-orders/:id/receive arrives and is routed.
ReceiveRequest(c, id) ==
    /\ ~InFlight(c)
    /\ req' = [req EXCEPT ![c] =
            [Idle EXCEPT !.pc = "select", !.id = id,
                         !.handler = Dispatch(ReceiveRoutes(app))]]
    /\ UNCHANGED <<app, faults, sales, now, out, products, purchase_orders, purchase_order_items, credited>>

\* --- the transactional handler (part_000, BEGIN ... COMMIT on one client)

\* SELECT status FROM purchase_orders WHERE id = $1, and the two throws.
TxSelectStatus(c) ==
    /\ req[c].pc = "select" /\ req[c].handler = "transactional"
    /\ req' =
        IF ~Exists(req[c].id) THEN Finish(c, "PO not found")
        ELSE IF purchase_orders[req[c].id].status = "received"
             THEN Finish(c, "PO already received")
             ELSE [req EXCEPT ![c].pc = "items",
                              ![c].po.status = purchase_orders[req[c].id].status]
    /\ UNCHANGED <<app, faults, sales, now, out, products, purchase_orders, purchase_order_items, credited>>

\* SELECT product_id, quantity FROM purchase_order_items WHERE purchase_order_id = $1
TxSelectItems(c) ==
    /\ req[c].pc = "items"
    /\ LET rows == ItemsOf(req[c].id) IN
       req' = [req EXCEPT ![c].items = rows, ![c].i = 1,
                          ![c].pc = IF rows = <<>> THEN "status" ELSE "stock"]
    /\ UNCHANGED <<app, faults, sales, now, out, products, purchase_orders, purchase_order_items, credited>>

\* One turn of the loop: UPDATE products SET stock = stock + $1 WHERE id = $2.
\* The row is locked until this transaction ends; the statement waits while
\* another open transaction holds the row.
TxUpdateStock(c) ==
    /\ req[c].pc = "stock"
    /\ LET item == req[c].items[req[c].i] IN
       /\ \A d \in Clients \ {c} : item.product_id \notin req[d].locked
       /\ req' = [req EXCEPT ![c].added = Plus(@, item.product_id, item.quantity),
                             ![c].locked = @ \cup {item.product_id},
                             ![c].i = @ + 1,
                             ![c].pc = IF req[c].i = Len(req[c].items) THEN "status" ELSE "stock"]
    /\ UNCHANGED <<app, faults, sales, now, out, products, purchase_orders, purchase_order_items, credited>>

\* UPDATE purchase_orders SET status = 'received', received_at = NOW() WHERE id = $1
TxUpdateStatus(c) ==
    /\ req[c].pc = "status" /\ req[c].handler = "transactional"
    /\ \A d \in Clients \ {c} : ~(req[d].po_locked /\ req[d].id = req[c].id)
    /\ req' = [req EXCEPT ![c].po_locked = TRUE, ![c].pc = "commit"]
    /\ UNCHANGED <<app, faults, sales, now, out, products, purchase_orders, purchase_order_items, credited>>

\* COMMIT, then res.json({ success: true })
TxCommit(c) ==
    /\ req[c].pc = "commit"
    /\ products' = AddAll(products, req[c].added)
    /\ purchase_orders' = SetStatus(purchase_orders, req[c].id, "received")
    /\ credited' = [credited EXCEPT ![req[c].id] =
                        [p \in ProductIds |-> @[p] + req[c].added[p]]]
    /\ req' = Finish(c, "success")
    /\ UNCHANGED <<app, faults, sales, now, out, purchase_order_items>>

\* --- the handlers without a transaction: "checked" (index.js 286, part_000
\* 698) and "unchecked" (index.js 334, part_000 748). Every statement is its
\* own committed transaction on the pool.

\* SELECT * FROM purchase_orders WHERE id = $1, the 404 and (checked) the 400.
PoolSelect(c) ==
    /\ req[c].pc = "select" /\ req[c].handler \in {"checked", "unchecked"}
    /\ req' =
        IF ~Exists(req[c].id) THEN Finish(c, "PO not found")
        ELSE IF req[c].handler = "checked" /\ purchase_orders[req[c].id].status = "received"
             THEN Finish(c, "PO already received")
             ELSE [req EXCEPT ![c].po = purchase_orders[req[c].id], ![c].pc = "stock1"]
    /\ UNCHANGED <<app, faults, sales, now, out, products, purchase_orders, purchase_order_items, credited>>

\* UPDATE products SET stock = stock + po.quantity WHERE id = po.product_id
PoolUpdateStock(c) ==
    /\ req[c].pc = "stock1"
    /\ LET po == req[c].po IN
       IF po.product_id = Null \/ po.quantity = Null
       THEN /\ req' = [req EXCEPT ![c].pc = "status"]
            /\ UNCHANGED <<products, credited>>
       ELSE /\ products' = AddStock(products, po.product_id[1], po.quantity[1])
            /\ credited' = [credited EXCEPT ![req[c].id] = Plus(@, po.product_id[1], po.quantity[1])]
            /\ req' = [req EXCEPT ![c].pc = "status",
                                  ![c].added = Plus(@, po.product_id[1], po.quantity[1])]
    /\ UNCHANGED <<app, faults, sales, now, out, purchase_orders, purchase_order_items>>

\* UPDATE purchase_orders SET status = 'received' ('RECEIVED' in the
\* unchecked handler) WHERE id = $1, then the response.
PoolUpdateStatus(c) ==
    /\ req[c].pc = "status" /\ req[c].handler \in {"checked", "unchecked"}
    /\ purchase_orders' = SetStatus(purchase_orders, req[c].id,
            IF req[c].handler = "unchecked" THEN "RECEIVED" ELSE "received")
    /\ req' = Finish(c, "success")
    /\ UNCHANGED <<app, faults, sales, now, out, products, purchase_order_items, credited>>

\* --- failures

\* The statement the request is at fails in the store (connection lost,
\* deadlock victim, ...).  transactional: catch, ROLLBACK, 400 with the
\* error's message.  checked: catch, 500, nothing undone.  unchecked: no
\* catch.
StoreFailure(c) ==
    /\ InFlight(c)
    /\ faults < MaxFaults
    /\ faults' = faults + 1
    /\ req' = Finish(c, IF req[c].handler = "transactional" THEN "store error"
                        ELSE "Failed to receive inventory")
    /\ UNCHANGED <<app, sales, now, out, products, purchase_orders, purchase_order_items, credited>>

\* The service process dies: requests in flight are lost, the store aborts
\* their open transactions.
Crash ==
    /\ \E c \in Clients : InFlight(c)
    /\ faults < MaxFaults
    /\ faults' = faults + 1
    /\ req' = [c \in Clients |-> IF InFlight(c) THEN Idle ELSE req[c]]
    /\ UNCHANGED <<app, sales, now, out, products, purchase_orders, purchase_order_items, credited>>

\* ---------------------------------------------------------------- sales and stock

\* PATCH /products/:id/stock  (no such row: nothing updated, empty body)
UpdateStock(p, s) ==
    /\ products' = IF p \in 1..Len(products) THEN [products EXCEPT ![p].stock = s] ELSE products
    /\ out' = Exchange("PATCH /products/:id/stock", [id |-> p, stock |-> s],
                       IF p \in 1..Len(products) THEN [id |-> p, stock |-> s] ELSE Null)
    /\ UNCHANGED <<app, faults, sales, now, purchase_orders, purchase_order_items, req, credited>>

\* CURRENT_DATE
Today == now \div 2

\* A sale that also takes the quantity sold out of the product's stock.
RecordSaleDeducting(p, q) ==
    /\ Len(sales) < MaxSales
    /\ p \in 1..Len(products)
    /\ sales' = Append(sales, [product_id |-> p, quantity |-> q, sold_at |-> Today])
    /\ products' = [products EXCEPT ![p].stock = @ - q]
    /\ out' = Exchange("POST /sales", [product_id |-> p, quantity |-> q],
                       [product_id |-> p, quantity |-> q, sold_at |-> Today])
    /\ UNCHANGED <<app, faults, now, purchase_orders, purchase_order_items, req, credited>>

\* POST /sales: INSERT INTO sales (product_id, quantity); sold_at defaults
\* to CURRENT_DATE.  product_id REFERENCES products(id).
RecordSale(p, q) ==
    /\ Len(sales) < MaxSales
    /\ p \in 1..Len(products)
    /\ sales' = Append(sales, [product_id |-> p, quantity |-> q, sold_at |-> Today])
    /\ out' = Exchange("POST /sales", [product_id |-> p, quantity |-> q],
                       [product_id |-> p, quantity |-> q, sold_at |-> Today])
    /\ UNCHANGED <<app, faults, products, now, purchase_orders, purchase_order_items, req, credited>>

\* Time passes.
Tick(e) ==
    /\ now + e <= MaxNow
    /\ now' = now + e
    /\ UNCHANGED <<app, faults, products, sales, out, purchase_orders, purchase_order_items, req, credited>>

\* ---------------------------------------------------------------- velocity arithmetic
\* A number of the SQL / JavaScript arithmetic is the pair <<numerator,
\* denominator>> with a positive denominator; NULL, null and undefined are
\* the empty tuple.

Num(n) == <<n, 1>>

\* s.sold_at >= NOW() - INTERVAL 'days days'   (sold_at is a DATE: midnight)
InWindowAlways(s, days) == TRUE

InWindow(s, days) == 2 * s.sold_at >= now - 2 * days

RECURSIVE QuantitySum(_, _, _)
QuantitySum(rows, p, days) ==
    IF rows = <<>> THEN 0
    ELSE (IF Head(rows).product_id = p /\ InWindow(Head(rows), days)
          THEN Head(rows).quantity ELSE 0)
         + QuantitySum(Tail(rows), p, days)

\* COALESCE(SUM(CASE WHEN s.sold_at >= NOW() - INTERVAL 'N days' THEN s.quantity END), 0) / N.0
DailyVelocity(p, days) == <<QuantitySum(sales, p, days), days>>

\* row.field of a JavaScript object: undefined when the row has no such field
Get(row, field) == IF field \in DOMAIN row THEN row[field] ELSE Null

\* x > 0  (null and undefined compare false)
Positive(x) == x # Null /\ x[1] > 0

\* stock / v
Quotient(stock, v) == <<stock * v[2], v[1]>>

\* a number used in a comparison or product: null is 0
ToNumber(x) == IF x = Null THEN Num(0) ELSE x

\* x <= y, for x a quotient with positive numerator part
LessEq(x, y) == x[1] * y[2] <= y[1] * x[2]

Product(x, y) == <<x[1] * y[1], x[2] * y[2]>>

Minus(x, n) == <<x[1] - n * x[2], x[2]>>

\* Math.ceil / CEIL of an exact value
Ceil(x) == -((-x[1]) \div x[2])

\* a * p.daily_velocity in JavaScript: p.daily_velocity is the NUMERIC
\* quotient sum / 30.0 as pg returns it (a decimal string; 16 decimals, 20
\* below 1), converted to the nearest double, and the product is rounded
\* to the nearest double.  The pairs <<a, sum>>, among the factors and sums
\* the handlers meet here, whose exact product a * sum / 30 is an integer
\* and whose double product is greater: 50 * 1.1 = 55.00000000000001,
\* 50 * 2.2 = 110.00000000000001, 60 * 2.0666666666666667 =
\* 124.00000000000001, 90 * 1.1 = 99.00000000000001, 90 * 2.0666666666666667
\* = 186.00000000000003, 90 * 2.2 = 198.00000000000003.
DoubleProductAbove == {<<50, 33>>, <<50, 66>>, <<60, 62>>, <<90, 33>>, <<90, 62>>, <<90, 66>>}

DoubleAbove(a, v) == <<a, v[1]>> \in DoubleProductAbove

\* (sum / 30.0) * a in SQL: the NUMERIC quotient is rounded half up at its
\* last decimal, so it lies above sum / 30 exactly when the next digit is
\* a 6 (sum = 2 mod 3: 0.0666...67), and the product by a is then above
\* the exact integer product.
NumericAbove(a, v) == v[1] % 3 = 2 /\ (a * v[1]) % v[2] = 0

\* Math.ceil / CEIL of a computed value: x is the exact value, above says
\* that the computed one is greater by a rounding error.
CeilRounded(x, above) ==
    IF above /\ x[1] % x[2] = 0 THEN (x[1] \div x[2]) + 1 ELSE Ceil(x)

Max(a, b) == IF a >= b THEN a ELSE b

\* ---------------------------------------------------------------- GET /inventory/velocity

DaysOfStock(stock, v) == IF Positive(v) THEN Quotient(stock, v) ELSE Null

VelocityRow(p) ==
    LET stock == products[p].stock IN
    [id |-> p, stock |-> stock,
     daily_velocity_7 |-> DailyVelocity(p, 7),
     daily_velocity_14 |-> DailyVelocity(p, 14),
     daily_velocity_30 |-> DailyVelocity(p, 30),
     daily_velocity_90 |-> DailyVelocity(p, 90),
     days_of_stock_7 |-> DaysOfStock(stock, DailyVelocity(p, 7)),
     days_of_stock_14 |-> DaysOfStock(stock, DailyVelocity(p, 14)),
     days_of_stock_30 |-> DaysOfStock(stock, DailyVelocity(p, 30)),
     days_of_stock_90 |-> DaysOfStock(stock, DailyVelocity(p, 90))]

\* A velocity computation that consumes the sales it has read.
GetVelocityConsuming ==
    /\ out' = Exchange("GET /inventory/velocity", Null,
                       [p \in 1..Len(products) |-> VelocityRow(p)])
    /\ sales' = <<>>
    /\ UNCHANGED <<app, faults, products, now, purchase_orders, purchase_order_items, req, credited>>

GetVelocity ==
    /\ out' = Exchange("GET /inventory/velocity", Null,
                       [p \in 1..Len(products) |-> VelocityRow(p)])
    /\ UNCHANGED <<app, faults, products, sales, now, purchase_orders, purchase_order_items, req, credited>>

\* ---------------------------------------------------------------- GET /inventory/reorder-status

\* The row the query returns.  part_000 names the velocity daily_velocity
\* and joins the supplier's lead_time_days (no handler creates a supplier or
\* sets products.supplier_id: the join finds none); index.js names it
\* daily_velocity_30.
ReorderQueryRow(p) ==
    IF app = "part_000"
    THEN [id |-> p, stock |-> products[p].stock, lead_time_days |-> Null,
          daily_velocity |-> DailyVelocity(p, VelocityWindowDays)]
    ELSE [id |-> p, stock |-> products[p].stock,
          daily_velocity_30 |-> DailyVelocity(p, VelocityWindowDays)]

\* The lead time the status is compared with: p.lead_time_days in
\* part_000, the constant LEAD_TIME_DAYS in index.js.
LeadTime(row) ==
    IF app = "part_000" THEN ToNumber(Get(row, "lead_time_days")) ELSE Num(LEAD_TIME_DAYS)

ReorderStatusRow(row) ==
    LET v == Get(row, "daily_velocity_30")
        days_left == IF Positive(v) THEN Quotient(row.stock, v) ELSE Null
        status ==
            IF days_left # Null /\ LessEq(days_left, LeadTime(row)) THEN "ORDER NOW"
            ELSE IF days_left # Null /\ LessEq(days_left, Product(LeadTime(row), <<3, 2>>))
                 THEN "ORDER SOON"
                 ELSE "OK"
    IN  row @@ [days_of_stock |-> days_left, status |-> status]

GetReorderStatus ==
    /\ out' = Exchange("GET /inventory/reorder-status", Null,
                       [p \in 1..Len(products) |-> ReorderStatusRow(ReorderQueryRow(p))])
    /\ UNCHANGED <<app, faults, products, sales, now, purchase_orders, purchase_order_items, req, credited>>

\* ---------------------------------------------------------------- POST /purchase-orders/suggest

\* const { product_id, lead_time_days = 30, buffer_days = 14 } = req.body
Default(x, d) == IF x = Null THEN d ELSE x[1]

SuggestedQuantity(p, lead_time_days, buffer_days) ==
    LET v == DailyVelocity(p, VelocityWindowDays)
        needed == CeilRounded(Minus(Product(Num(lead_time_days + buffer_days), v),
                                    products[p].stock),
                              DoubleAbove(lead_time_days + buffer_days, v))
    IN  Max(needed, 0)

\* No such product: rows[0] is undefined and the handler throws before it
\* answers.
Suggest(p, lt, buf) ==
    /\ out' = IF p \in 1..Len(products)
              THEN Exchange("POST /purchase-orders/suggest",
                            [product_id |-> p, lead_time_days |-> lt, buffer_days |-> buf],
                            [product_id |-> p,
                             suggested_quantity |->
                                SuggestedQuantity(p, Default(lt, DefaultLeadTimeDays),
                                                     Default(buf, DefaultBufferDays))])
              ELSE NoExchange
    /\ UNCHANGED <<app, faults, products, sales, now, purchase_orders, purchase_order_items, req, credited>>

\* ---------------------------------------------------------------- suggestion lists (part_000)

\* GET /purchase-orders/suggestions: null for velocity <= 0 or order_qty 0,
\* then .filter(Boolean)
SuggestionOf(p) ==
    LET v == DailyVelocity(p, VelocityWindowDays)
        needed_stock == CeilRounded(Product(v, Num(TARGET_DAYS_COVERAGE)),
                                    DoubleAbove(TARGET_DAYS_COVERAGE, v))
        order_qty == Max(needed_stock - products[p].stock, 0)
    IN  IF ~Positive(v) \/ order_qty = 0 THEN Null
        ELSE [product_id |-> p, current_stock |-> products[p].stock,
              daily_velocity |-> v, suggested_order_quantity |-> order_qty]

Filtered(rows) == SelectSeq(rows, LAMBDA r : r # Null)

GetSuggestions ==
    /\ app = "part_000"
    /\ out' = Exchange("GET /purchase-orders/suggestions", Null,
                       Filtered([p \in 1..Len(products) |-> SuggestionOf(p)]))
    /\ UNCHANGED <<app, faults, products, sales, now, purchase_orders, purchase_order_items, req, credited>>

\* GET /purchase-orders/suggestions.csv: one row per product,
\* GREATEST(CEIL(velocity * 90 - stock), 0)
CsvRow(p) ==
    LET v == DailyVelocity(p, VelocityWindowDays) IN
    [current_stock |-> products[p].stock, daily_velocity |-> v,
     suggested_order_quantity |->
        Max(CeilRounded(Minus(Product(v, Num(CsvTargetDays)), products[p].stock),
                        NumericAbove(CsvTargetDays, v)), 0)]

GetSuggestionsCsv ==
    /\ app = "part_000"
    /\ out' = Exchange("GET /purchase-orders/suggestions.csv", Null,
                       [p \in 1..Len(products) |-> CsvRow(p)])
    /\ UNCHANGED <<app, faults, products, sales, now, purchase_orders, purchase_order_items, req, credited>>

\* GET /purchase-orders/recommendations: one entry per product,
\* Math.max(Math.ceil(dailyVelocity * TARGET_DAYS - stock), 0)
RecommendationOf(p) ==
    LET dailyVelocity == DailyVelocity(p, VelocityWindowDays) IN
    [product_id |-> p, stock |-> products[p].stock, daily_velocity_30 |-> dailyVelocity,
     recommended_order_qty |->
        Max(CeilRounded(Minus(Product(dailyVelocity, Num(TARGET_DAYS)), products[p].stock),
                        DoubleAbove(TARGET_DAYS, dailyVelocity)), 0),
     target_days |-> TARGET_DAYS]

GetRecommendations ==
    /\ app = "part_000"
    /\ out' = Exchange("GET /purchase-orders/recommendations", Null,
                       [p \in 1..Len(products) |-> RecommendationOf(p)])
    /\ UNCHANGED <<app, faults, products, sales, now, purchase_orders, purchase_order_items, req, credited>>

\* ---------------------------------------------------------------- specifications

LineInputs == [product_id : ProductIds, quantity : Quantities]

ItemLists == UNION {[1..n -> LineInputs] : n \in 0..MaxLines}

NextFor(C) ==
    \/ CreateProduct(0)
    \/ \E p \in ProductIds, q \in Quantities : CreatePurchaseOrder(p, q)
    \/ \E p \in ProductIds, q \in Quantities : CreateFromSuggestion(p, q)
    \/ \E items \in ItemLists : CreateFromDashboard(items)
    \/ \E c \in C, id \in 1..MaxOrders : ReceiveRequest(c, id)
    \/ \E c \in C : TxSelectStatus(c)
    \/ \E c \in C : TxSelectItems(c)
    \/ \E c \in C : TxUpdateStock(c)
    \/ \E c \in C : TxUpdateStatus(c)
    \/ \E c \in C : TxCommit(c)
    \/ \E c \in C : PoolSelect(c)
    \/ \E c \in C : PoolUpdateStock(c)
    \/ \E c \in C : PoolUpdateStatus(c)
    \/ \E c \in C : StoreFailure(c)
    \/ Crash

Next == NextFor(Clients)

Spec == Init /\ [][Next]_vars

\* One client at a time: every receive call is issued after the previous
\* one has been answered.
NextSeq == NextFor({1})

SpecSeq == Init /\ [][NextSeq]_vars

\* The inventory handlers: products, sales, velocity, reorder status and
\* suggestions.
StockValues == {0, 50, 60, 200}

SaleQuantities == {1, 33, 60}

Elapse == {60, 61}

OptionalDays == {Null, Some(20)}

NextPlan ==
    \/ \E s \in StockValues : CreateProduct(s)
    \/ \E p \in ProductIds, s \in StockValues : UpdateStock(p, s)
    \/ \E p \in ProductIds, q \in SaleQuantities : RecordSale(p, q)
    \/ \E e \in Elapse : Tick(e)
    \/ GetVelocity
    \/ GetReorderStatus
    \/ \E p \in ProductIds, lt \in OptionalDays, buf \in OptionalDays : Suggest(p, lt, buf)
    \/ GetSuggestions
    \/ GetSuggestionsCsv
    \/ GetRecommendations

SpecPlan == Init /\ [][NextPlan]_vars

\* ---------------------------------------------------------------- bulk operations
\* A product's sku is its id written as a sku (sku TEXT UNIQUE); an id or
\* sku no product has is MaxProducts + 1.  reorder_point, which the import
\* also sets, is read by no handler modelled here and is left out.

NamedIds == 1..(MaxProducts + 1)

ImageUrls == {"a.png"}

ImportStocks == {0, 5}

\* UPDATE products SET image_url = $1 WHERE id = $2, one row after another
RECURSIVE SetImages(_, _)
SetImages(prods, updates) ==
    IF updates = <<>> THEN prods
    ELSE LET item == Head(updates) IN
         SetImages(IF item.product_id \in 1..Len(prods)
                   THEN [prods EXCEPT ![item.product_id].image_url = Some(item.image_url)]
                   ELSE prods,
                   Tail(updates))

\* if (rows[0]) results.push(rows[0])
RECURSIVE ImageResults(_, _)
ImageResults(prods, updates) ==
    IF updates = <<>> THEN <<>>
    ELSE LET item == Head(updates) IN
         (IF item.product_id \in 1..Len(prods)
          THEN <<[id |-> item.product_id, image_url |-> item.image_url]>>
          ELSE <<>>)
         \o ImageResults(prods, Tail(updates))

\* PATCH /products/images/bulk.  k rows are applied before a query fails;
\* k = Len(updates): none fails.  The handler has no try/catch: on a
\* failure it throws and sends no answer.
BulkImages(updates, k) ==
    /\ k \in 0..Len(updates)
    /\ products' = SetImages(products, SubSeq(updates, 1, k))
    /\ out' = Exchange("PATCH /products/images/bulk", updates,
                       IF k = Len(updates)
                       THEN [updated |-> Len(ImageResults(products, updates)),
                             products |-> ImageResults(products, updates)]
                       ELSE Null)
    /\ UNCHANGED <<app, faults, sales, now, purchase_orders, purchase_order_items, req, credited>>

\* UPDATE products SET stock = $1, reorder_point = $2 WHERE sku = $3, one
\* row after another
RECURSIVE SetStocks(_, _)
SetStocks(prods, rows) ==
    IF rows = <<>> THEN prods
    ELSE LET row == Head(rows) IN
         SetStocks(IF row.sku \in 1..Len(prods)
                   THEN [prods EXCEPT ![row.sku].stock = row.stock]
                   ELSE prods,
                   Tail(rows))

\* POST /inventory/import.  k rows are applied before a query fails (a
\* store failure, or a stock that is not a number); k = Len(rows): none
\* fails.
Import(rows, k) ==
    /\ app = "part_000"
    /\ k \in 0..Len(rows)
    /\ products' = SetStocks(products, SubSeq(rows, 1, k))
    /\ out' = Exchange("POST /inventory/import", rows,
                       IF k = Len(rows)
                       THEN [success |-> TRUE, updated |-> Len(rows)]
                       ELSE [error |-> "Import failed"])
    /\ UNCHANGED <<app, faults, sales, now, purchase_orders, purchase_order_items, req, credited>>

ImageUpdates ==
    UNION {[1..n -> [product_id : NamedIds, image_url : ImageUrls]] : n \in 0..MaxRows}

ImportRows ==
    UNION {[1..n -> [sku : NamedIds, stock : ImportStocks]] : n \in 0..MaxRows}

NextBulk ==
    \/ \E s \in StockValues : CreateProduct(s)
    \/ \E updates \in ImageUpdates, k \in 0..MaxRows : BulkImages(updates, k)
    \/ \E rows \in ImportRows, k \in 0..MaxRows : Import(rows, k)

SpecBulk == Init /\ [][NextBulk]_vars

\* ---------------------------------------------------------------- creating purchase orders
\* The creation handlers with every request they can be sent and the
\* answer they give.  (CreatePurchaseOrder, CreateFromSuggestion and
\* CreateFromDashboard above are their accepted requests.)

SingleBodies == [product_id : ProductIds, quantity : Quantities]

LineBodies == [supplier_id : {1}, items : ItemLists]

CreateBodies == SingleBodies \cup LineBodies

\* product_id INT REFERENCES products(id): NULL, or an existing product
References(p) == p = Null \/ p[1] \in 1..Len(products)

\* A field of the request body as a query parameter: undefined is sent as
\* NULL.
Param(body, field) == IF field \in DOMAIN body THEN Some(body[field]) ELSE Null

LinesFor(id, items) ==
    [k \in 1..Len(items) |->
        [purchase_order_id |-> id, product_id |-> items[k].product_id,
         quantity |-> items[k].quantity]]

\* POST /purchase-orders.  part_000 destructures supplier_id and items and
\* then reads product_id, quantity and expected_date, which are not
\* declared: a ReferenceError before the INSERT, and no answer.  index.js
\* inserts the body's product_id and quantity, whatever else it holds; a
\* product_id that violates the foreign key rejects the INSERT, and the
\* handler, which catches nothing, sends no answer.
PostPurchaseOrders(body) ==
    LET product_id == Param(body, "product_id")
        quantity == Param(body, "quantity")
        inserted == app = "index.js" /\ References(product_id)
    IN  /\ Len(purchase_orders) < MaxOrders
        /\ IF inserted
           THEN /\ InsertOrder(product_id, quantity)
                /\ out' = Exchange("POST /purchase-orders", body,
                                   [id |-> Len(purchase_orders) + 1, product_id |-> product_id,
                                    quantity |-> quantity, status |-> "open"])
           ELSE /\ UNCHANGED <<purchase_orders, credited>>
                /\ out' = Exchange("POST /purchase-orders", body, Null)
        /\ UNCHANGED <<app, faults, sales, now, products, purchase_order_items, req>>

\* POST /purchase-orders/from-dashboard.  A body without items makes the
\* loop throw, a line naming no product violates the foreign key: either
\* way ROLLBACK and 500.
PostFromDashboard(body) ==
    LET accepted == /\ "items" \in DOMAIN body
                    /\ \A k \in 1..Len(body.items) : References(Some(body.items[k].product_id))
    IN  /\ app = "part_000"
        /\ Len(purchase_orders) < MaxOrders
        /\ IF accepted
           THEN /\ InsertOrder(Null, Null)
                /\ purchase_order_items' = purchase_order_items
                        \o LinesFor(Len(purchase_orders) + 1, body.items)
                /\ out' = Exchange("POST /purchase-orders/from-dashboard", body,
                                   [purchase_order_id |-> Len(purchase_orders) + 1])
           ELSE /\ UNCHANGED <<purchase_orders, credited, purchase_order_items>>
                /\ out' = Exchange("POST /purchase-orders/from-dashboard", body,
                                   [error |-> "Failed to create PO"])
        /\ UNCHANGED <<app, faults, sales, now, products, req>>

\* POST /purchase-orders/from-suggestion: 400 without product_id or
\* quantity; a product_id that violates the foreign key rejects the INSERT
\* and no answer is sent.
PostFromSuggestion(body) ==
    LET product_id == Param(body, "product_id")
        quantity == Param(body, "quantity")
    IN  /\ app = "part_000"
        /\ Len(purchase_orders) < MaxOrders
        /\ IF product_id = Null \/ quantity = Null
           THEN /\ UNCHANGED <<purchase_orders, credited>>
                /\ out' = Exchange("POST /purchase-orders/from-suggestion", body,
                                   [error |-> "product_id and quantity required"])
           ELSE IF References(product_id)
           THEN /\ InsertOrder(product_id, quantity)
                /\ out' = Exchange("POST /purchase-orders/from-suggestion", body,
                                   [id |-> Len(purchase_orders) + 1, product_id |-> product_id,
                                    quantity |-> quantity, status |-> "open"])
           ELSE /\ UNCHANGED <<purchase_orders, credited>>
                /\ out' = Exchange("POST /purchase-orders/from-suggestion", body, Null)
        /\ UNCHANGED <<app, faults, sales, now, products, purchase_order_items, req>>

NextCreate ==
    \/ CreateProduct(0)
    \/ \E body \in CreateBodies : PostPurchaseOrders(body)
    \/ \E body \in CreateBodies : PostFromDashboard(body)
    \/ \E body \in CreateBodies : PostFromSuggestion(body)

SpecCreate == Init /\ [][NextCreate]_vars

\* ---------------------------------------------------------------- quantities of any sign
\* The quantities a request can carry: no handler checks them, and the
\* columns are INT NOT NULL with no CHECK.

AnyQuantities == {-1, 0, 1}

AnyLines == [product_id : ProductIds, quantity : AnyQuantities]

\* Orders of one line.
AnyBodies == {[supplier_id |-> 1, items |-> <<line>>] : line \in AnyLines}

\* Sales, order creation and receipt in part_000, by one caller and
\* without failures.
InitQuantities == Init /\ app = "part_000"

NextQuantities ==
    \/ CreateProduct(0)
    \/ \E p \in ProductIds, q \in AnyQuantities : RecordSale(p, q)
    \/ \E body \in AnyBodies : PostFromDashboard(body)
    \/ \E id \in 1..MaxOrders : ReceiveRequest(1, id)
    \/ TxSelectStatus(1)
    \/ TxSelectItems(1)
    \/ TxUpdateStock(1)
    \/ TxUpdateStatus(1)
    \/ TxCommit(1)

SpecQuantities == InitQuantities /\ [][NextQuantities]_vars

\* ---------------------------------------------------------------- the handlers that write the store
\* Every handler that writes products, sales or purchase orders, by one
\* caller and without failures, on small inputs.

LedgerStock == 5

LedgerBodies ==
    [product_id : ProductIds, quantity : {1}]
        \cup {[supplier_id |-> 1, items |-> <<line>>] :
                line \in [product_id : ProductIds, quantity : {1}]}

LedgerRows == {<<row>> : row \in [sku : ProductIds, stock : {LedgerStock}]}

NextLedger ==
    \/ CreateProduct(0)
    \/ \E p \in ProductIds : RecordSale(p, 1)
    \/ \E p \in ProductIds : UpdateStock(p, LedgerStock)
    \/ \E rows \in LedgerRows : Import(rows, 1)
    \/ \E body \in LedgerBodies : PostPurchaseOrders(body)
    \/ \E body \in LedgerBodies : PostFromDashboard(body)
    \/ \E id \in 1..MaxOrders : ReceiveRequest(1, id)
    \/ TxSelectStatus(1)
    \/ TxSelectItems(1)
    \/ TxUpdateStock(1)
    \/ TxUpdateStatus(1)
    \/ TxCommit(1)
    \/ PoolSelect(1)
    \/ PoolUpdateStock(1)
    \/ PoolUpdateStatus(1)

SpecLedger == Init /\ [][NextLedger]_vars

\* ---------------------------------------------------------------- terms of the claims

RECURSIVE SumFor(_, _)
SumFor(rows, p) ==
    IF rows = <<>> THEN 0
    ELSE (IF Head(rows).product_id = p THEN Head(rows).quantity ELSE 0)
         + SumFor(Tail(rows), p)

\* Per product, the sum of the quantities of the order's line items.
LinesSum(id) == [p \in ProductIds |-> SumFor(ItemsOf(id), p)]

\* What a receipt of the order has to credit: its lines, or, when it has
\* none, its direct product_id and quantity.
OrderTotal(id) ==
    IF ItemsOf(id) # <<>> THEN LinesSum(id)
    ELSE LET po == purchase_orders[id] IN
         IF po.product_id = Null \/ po.quantity = Null THEN Zero
         ELSE Plus(Zero, po.product_id[1], po.quantity[1])

Times(k, f) == [p \in ProductIds |-> k * f[p]]

Done(c) == req[c].pc = "done"

Answered(c, r) == Done(c) /\ req[c].res = r

Failures == {"store error", "Failed to receive inventory"}

OrderIds == 1..Len(purchase_orders)

\* ---------------------------------------------------------------- claims

\* C1: for an order not yet received, of two receive calls issued one after
\* the other the first sets status received and increases stock by the
\* order's total quantity exactly once; the second fails with Conflict and
\* leaves every product's stock unchanged.  (Checked with one caller and
\* no store failure.)
C1_Answers ==
    faults = 0 =>
    \A c \in Clients :
        /\ Answered(c, "success") =>
              /\ purchase_orders[req[c].id].status = "received"
              /\ credited[req[c].id] = OrderTotal(req[c].id)
        /\ Answered(c, "PO already received") =>
              credited[req[c].id] = OrderTotal(req[c].id)

C1_SecondCall ==
    \A c \in Clients :
        (faults' = 0 /\ ~Done(c) /\ Done(c)' /\ Exists(req[c].id)
            /\ purchase_orders[req[c].id].status = "received")
        => /\ req'[c].res \in {"PO already received"} \cup Failures
           /\ products' = products

C1_ReceiveTwice == [] C1_Answers /\ [][C1_SecondCall]_vars

\* C2: two concurrent receive requests for one order cannot both succeed,
\* and each product's stock is credited with the order's quantities only
\* once.  (No store failure or crash involved.)
C2_ConcurrentReceive ==
    faults = 0 =>
        /\ \A c, d \in Clients :
              (c # d /\ req[c].id = req[d].id) =>
                  ~(Answered(c, "success") /\ Answered(d, "success"))
        /\ \A o \in OrderIds : credited[o] \in {Zero, OrderTotal(o)}

\* C3: in every committed state of the store a receive is applied
\* all-or-nothing: no order that is still non-received has any product
\* credited, and a received order has every line credited.  (Stated for the
\* orders with no receive in flight.)
C3_AllOrNothing ==
    \A o \in OrderIds :
        (\A c \in Clients : InFlight(c) => req[c].id # o) =>
            IF purchase_orders[o].status = "received"
            THEN ItemsOf(o) # <<>> =>
                    \E k \in 1..(MaxClients + MaxFaults) : credited[o] = Times(k, LinesSum(o))
            ELSE credited[o] = Zero

\* C4: after a receive attempt that failed in the store, stock and status
\* are as before the attempt (an order still not received has nothing
\* credited), the failure is answered as an error, and a later receive that
\* succeeds credits the stock exactly once.  (Checked with one caller.)
C4_FailureRollsBack ==
    \A c \in Clients :
        /\ (Done(c) /\ req[c].res \in Failures /\ Exists(req[c].id)
                /\ purchase_orders[req[c].id].status # "received")
            => credited[req[c].id] = Zero
        /\ (faults > 0 /\ Answered(c, "success"))
            => credited[req[c].id] = OrderTotal(req[c].id)

\* C5: a successful receive increases each product's stock by exactly the
\* sum of the order's line quantities naming it, or, for an order without
\* lines, the stock of the order's product_id by the order's quantity;
\* other products are unchanged.
C5_ReceiptAmount ==
    \A c \in Clients :
        Answered(c, "success") => req[c].added = OrderTotal(req[c].id)

\* C6: an order whose status has become received keeps it forever, and
\* every order's status is always one of draft, open, received.
C6_Statuses ==
    \A o \in OrderIds : purchase_orders[o].status \in {"DRAFT", "open", "received"}

C6_Forward ==
    \A o \in OrderIds :
        purchase_orders[o].status = "received" => purchase_orders'[o].status = "received"

C6_StatusForward == [] C6_Statuses /\ [][C6_Forward]_vars

\* An order is received and a further receive of it has been answered.
C6_Witness ==
    \E c \in Clients :
        /\ Answered(c, "PO already received")
        /\ purchase_orders[req[c].id].status = "received"

\* ---------------------------------------------------------------- terms of the planning claims

\* The step is the answer of handler op: the store the answer was computed
\* from is the one before (and after) the step.
Fresh(op) == out'.op = op /\ UNCHANGED <<products, sales, now>>

\* The quantities of product p sold within the last days days.
RECURSIVE SoldWithin(_, _, _)
SoldWithin(rows, p, days) ==
    IF rows = <<>> THEN 0
    ELSE (IF Head(rows).product_id = p /\ 2 * Head(rows).sold_at >= now - 2 * days
          THEN Head(rows).quantity ELSE 0)
         + SoldWithin(Tail(rows), p, days)

\* Product p has no sale inside the window of days days: none at all, or
\* only older ones.
NoSalesWithin(p, days) ==
    \A i \in 1..Len(sales) :
        sales[i].product_id = p => 2 * sales[i].sold_at < now - 2 * days

HasSale(p) == \E i \in 1..Len(sales) : sales[i].product_id = p

\* The velocity a reorder-status row reports, under either name.
ReportedVelocity(r) ==
    IF "daily_velocity_30" \in DOMAIN r THEN r.daily_velocity_30 ELSE Get(r, "daily_velocity")

Windows == {7, 14, 30, 90}

VelocityOf(r, days) ==
    CASE days = 7 -> r.daily_velocity_7 [] days = 14 -> r.daily_velocity_14
      [] days = 30 -> r.daily_velocity_30 [] days = 90 -> r.daily_velocity_90

DaysOf(r, days) ==
    CASE days = 7 -> r.days_of_stock_7 [] days = 14 -> r.days_of_stock_14
      [] days = 30 -> r.days_of_stock_30 [] days = 90 -> r.days_of_stock_90

\* ---------------------------------------------------------------- claims (planning)

\* C7: for every product whose 30-day velocity is positive, reorder-status
\* reports days_of_stock = stock / velocity and the status ORDER NOW when
\* days_of_stock <= L, ORDER SOON when L < days_of_stock <= 1.5 L, OK
\* otherwise, with L = 30 when no lead time is present (no product here has
\* a supplier).  With sold the 30-day sum, days_of_stock = 30 stock / sold.
C7_Step ==
    Fresh("GET /inventory/reorder-status") =>
        \A p \in 1..Len(products) :
            LET r == out'.body[p]
                sold == SoldWithin(sales, p, 30)
                stock == products[p].stock
                L == 30
            IN  sold > 0 =>
                  /\ r.days_of_stock # Null
                  /\ r.days_of_stock[1] * sold = 30 * stock * r.days_of_stock[2]
                  /\ r.status = IF 30 * stock <= L * sold THEN "ORDER NOW"
                                ELSE IF 2 * 30 * stock <= 3 * L * sold THEN "ORDER SOON"
                                ELSE "OK"

C7_ReorderStatus == [][C7_Step]_vars

\* C8: for every product with no sale inside the velocity window (none at
\* all, or only older ones) the reported daily velocity is 0, days_of_stock
\* is null and the reorder status is OK, whatever the stock.
C8_Step ==
    /\ Fresh("GET /inventory/velocity") =>
          \A p \in 1..Len(products), days \in Windows :
              NoSalesWithin(p, days) =>
                  /\ VelocityOf(out'.body[p], days)[1] = 0
                  /\ DaysOf(out'.body[p], days) = Null
    /\ Fresh("GET /inventory/reorder-status") =>
          \A p \in 1..Len(products) :
              NoSalesWithin(p, 30) =>
                  /\ ReportedVelocity(out'.body[p]) # Null
                  /\ ReportedVelocity(out'.body[p])[1] = 0
                  /\ out'.body[p].days_of_stock = Null
                  /\ out'.body[p].status = "OK"

C8_ZeroSales == [][C8_Step]_vars

\* Reorder-status has answered OK, velocity 0 and no days_of_stock for a
\* product in stock whose only sales are older than the window.
C8_Witness ==
    /\ out.op = "GET /inventory/reorder-status"
    /\ \E p \in 1..Len(products) :
          /\ p \in 1..Len(out.body)
          /\ HasSale(p)
          /\ NoSalesWithin(p, 30)
          /\ products[p].stock > 0
          /\ ReportedVelocity(out.body[p]) # Null
          /\ ReportedVelocity(out.body[p])[1] = 0
          /\ out.body[p].days_of_stock = Null
          /\ out.body[p].status = "OK"

\* C9: suggest answers, for an existing product, suggested_quantity =
\* max(ceil((lead_time_days + buffer_days) * velocity - stock), 0), with
\* lead_time_days = 30 and buffer_days = 14 when the caller omits them; it
\* is never negative.  With sold the 30-day sum and X = (lead + buffer) *
\* sold - 30 * stock, the quantity q is 0 when X <= 0 and otherwise the
\* least q with 30 q >= X.
C9_Step ==
    Fresh("POST /purchase-orders/suggest") =>
        LET r == out'.request
            lead == IF r.lead_time_days = Null THEN 30 ELSE r.lead_time_days[1]
            buffer == IF r.buffer_days = Null THEN 14 ELSE r.buffer_days[1]
            X == (lead + buffer) * SoldWithin(sales, r.product_id, 30)
                    - 30 * products[r.product_id].stock
            q == out'.body.suggested_quantity
        IN  /\ q >= 0
            /\ X <= 0 => q = 0
            /\ X > 0 => (30 * q >= X /\ 30 * (q - 1) < X)

C9_Suggest == [][C9_Step]_vars

\* C10: every entry a suggestion list returns (JSON suggestions,
\* recommendations, CSV export) has a suggested quantity strictly greater
\* than 0: products whose target-coverage quantity is zero are omitted.
C10_NoZeroEntries ==
    /\ out.op \in {"GET /purchase-orders/suggestions", "GET /purchase-orders/suggestions.csv"} =>
          \A i \in 1..Len(out.body) : out.body[i].suggested_order_quantity > 0
    /\ out.op = "GET /purchase-orders/recommendations" =>
          \A i \in 1..Len(out.body) : out.body[i].recommended_order_qty > 0

\* C11 as stated: of two consecutive velocity computations with no sale
\* recorded between them (every other handler replaces out, so only time
\* may have passed) the second returns the output of the first, and
\* computing it changes no stored state.
C11_Step ==
    (out.op = "GET /inventory/velocity" /\ out'.op = "GET /inventory/velocity") =>
        /\ out'.body = out.body
        /\ UNCHANGED <<products, sales, purchase_orders, purchase_order_items>>

C11_StepSameTime ==
    (out.op = "GET /inventory/velocity" /\ out'.op = "GET /inventory/velocity"
        /\ out'.at = out.at) =>
        /\ out'.body = out.body
        /\ UNCHANGED <<products, sales, purchase_orders, purchase_order_items>>

Naming(rows, key, p, n) == {i \in 1..n : rows[i][key] = p}

Last(S) == CHOOSE i \in S : \A j \in S : j <= i

\* The number of rows that name an existing product.
Hits(rows, key) == Cardinality({i \in 1..Len(rows) : rows[i][key] \in 1..Len(products)})

\* The image updates of the first n rows are applied to the products, and
\* nothing else has changed.
ImagesApplied(rows, n) ==
    /\ Len(products') = Len(products)
    /\ \A p \in 1..Len(products) :
          /\ products'[p].stock = products[p].stock
          /\ products'[p].image_url =
                IF Naming(rows, "product_id", p, n) = {} THEN products[p].image_url
                ELSE Some(rows[Last(Naming(rows, "product_id", p, n))].image_url)

\* The stock updates of the first n rows are applied to the products, and
\* nothing else has changed.
StocksApplied(rows, n) ==
    /\ Len(products') = Len(products)
    /\ \A p \in 1..Len(products) :
          /\ products'[p].image_url = products[p].image_url
          /\ products'[p].stock =
                IF Naming(rows, "sku", p, n) = {} THEN products[p].stock
                ELSE rows[Last(Naming(rows, "sku", p, n))].stock

\* C12: a bulk operation applies its rows independently and reports the
\* number of input rows that actually updated an existing product (a row
\* naming an id or sku that does not exist is not counted); when a row
\* fails, the rows before it stay applied.
C12_Step ==
    LET rows == out'.request IN
    /\ (out'.op = "PATCH /products/images/bulk" /\ out' # out) =>
          IF out'.body # Null
          THEN /\ out'.body.updated = Hits(rows, "product_id")
               /\ ImagesApplied(rows, Len(rows))
          ELSE \E n \in 0..(Len(rows) - 1) : ImagesApplied(rows, n)
    /\ (out'.op = "POST /inventory/import" /\ out' # out) =>
          IF "updated" \in DOMAIN out'.body
          THEN /\ out'.body.updated = Hits(rows, "sku")
               /\ StocksApplied(rows, Len(rows))
          ELSE \E n \in 0..(Len(rows) - 1) : StocksApplied(rows, n)

C12_BulkCounts == [][C12_Step]_vars

\* ---------------------------------------------------------------- claims (creating purchase orders)

\* The request names only existing products.
WellFormed(body) ==
    IF "items" \in DOMAIN body
    THEN \A k \in 1..Len(body.items) : body.items[k].product_id \in 1..Len(products)
    ELSE body.product_id \in 1..Len(products)

\* The handler answered, and not with an error.
Created(answer) == answer # Null /\ "error" \notin DOMAIN answer

\* The step adds exactly one order, not received, that holds exactly what
\* the body gives: its product and quantity, or its lines.
AddsOrder(body) ==
    LET id == Len(purchase_orders) + 1 IN
    /\ Len(purchase_orders') = id
    /\ SubSeq(purchase_orders', 1, id - 1) = purchase_orders
    /\ purchase_orders'[id].status \in {"open", "DRAFT"}
    /\ IF "items" \in DOMAIN body
       THEN /\ Len(purchase_order_items') = Len(purchase_order_items) + Len(body.items)
            /\ SubSeq(purchase_order_items', 1, Len(purchase_order_items)) = purchase_order_items
            /\ \A k \in 1..Len(body.items) :
                  LET line == purchase_order_items'[Len(purchase_order_items) + k] IN
                  /\ line.purchase_order_id = id
                  /\ line.product_id = body.items[k].product_id
                  /\ line.quantity = body.items[k].quantity
       ELSE /\ purchase_order_items' = purchase_order_items
            /\ purchase_orders'[id].product_id = Some(body.product_id)
            /\ purchase_orders'[id].quantity = Some(body.quantity)

\* C13: creating a purchase order is accepted in both request shapes (a
\* product with a quantity; a supplier with a list of lines), and each
\* successful creation adds exactly one new order, open or draft and never
\* received, holding exactly the product and quantity or the lines given.
C13_Step ==
    LET body == out'.request IN
    /\ (out'.op = "POST /purchase-orders" /\ out' # out) =>
          /\ WellFormed(body) => Created(out'.body)
          /\ Created(out'.body) => AddsOrder(body)
    /\ (out'.op = "POST /purchase-orders/from-dashboard" /\ out' # out) =>
          /\ ("items" \in DOMAIN body /\ WellFormed(body)) => Created(out'.body)
          /\ Created(out'.body) => AddsOrder(body)
    /\ (out'.op = "POST /purchase-orders/from-suggestion" /\ out' # out) =>
          /\ ("items" \notin DOMAIN body /\ WellFormed(body)) => Created(out'.body)
          /\ Created(out'.body) => AddsOrder(body)

C13_CreateShapes == [][C13_Step]_vars

\* ---------------------------------------------------------------- claims (quantities, sales)

\* C14: in every reachable state every stored sale and every stored
\* purchase order line has a quantity strictly greater than zero, so that
\* receiving a purchase order never decreases any product's stock (no
\* other step of SpecQuantities changes a stock).
C14_Stored ==
    /\ \A i \in 1..Len(sales) : sales[i].quantity > 0
    /\ \A i \in 1..Len(purchase_order_items) : purchase_order_items[i].quantity > 0

C14_NoDecrease ==
    \A p \in 1..Len(products) : products'[p].stock >= products[p].stock

C14_PositiveQuantities == [] C14_Stored /\ [][C14_NoDecrease]_vars

\* C15: recording a sale only appends one new sale: it leaves the stock of
\* every product, every purchase order and every previously stored sale
\* unchanged; a stock changes only in an explicit stock update, a bulk
\* import or the receipt of a purchase order.
C15_Step ==
    /\ sales' # sales =>
          /\ Len(sales') = Len(sales) + 1
          /\ SubSeq(sales', 1, Len(sales)) = sales
          /\ products' = products
          /\ purchase_orders' = purchase_orders
          /\ purchase_order_items' = purchase_order_items
    /\ (\E p \in 1..Len(products) : products'[p].stock # products[p].stock) =>
          \/ out'.op \in {"PATCH /products/:id/stock", "POST /inventory/import"}
          \/ \E c \in Clients : InFlight(c) /\ req'[c] # req[c]

C15_SaleFrame == [][C15_Step]_vars

\* A sale of a product in stock has just been recorded while a purchase
\* order is stored.
C15_Witness ==
    /\ out.op = "POST /sales"
    /\ sales # <<>>
    /\ sales[Len(sales)].product_id = out.request.product_id
    /\ products[out.request.product_id].stock > 0
    /\ purchase_orders # <<>>

====
